---- MODULE Spec2Model ----
(***************************************************************************)
(* Model of the Flask quiz application (src/app.py): the question bank     *)
(* loader and validator of QuizService, the question selector, the three   *)
(* routes "/", "/quiz" and "/results" and the session they read and write. *)
(*                                                                         *)
(* The session variable holds the keys the application itself stores in    *)
(* the Flask session (quiz_questions, score, current_question_index,       *)
(* answers).  A call of flash() is recorded in the response (field flash), *)
(* a redirect or a rendered template in the fields status/target/data.     *)
(***************************************************************************)
EXTENDS Integers, Sequences, FiniteSets, TLC

(***************************************************************************)
(* Bounds of the model.                                                    *)
(***************************************************************************)
\* longest entry list of a question file in Spec
MaxEntries == 3
\* longest entry list of a question file in SpecLoad
MaxShapeEntries == 2
\* largest small value of MAX_QUESTIONS_PER_QUIZ tried besides the default
MaxLimit == 1
\* non-empty submissions a client sends between two GET / requests
MaxSubmitted == 4
\* largest quiz handed to the result summarizer in SpecResults
MaxResultsTotal == 10
\* largest quiz whose progress bar is computed in SpecProgress
MaxProgressTotal == 200
\* session cookies a replaying client holds on to in SpecReplay
MaxKept == 3

(***************************************************************************)
(* Program constants.                                                      *)
(***************************************************************************)
\* Config.MAX_QUESTIONS_PER_QUIZ when the environment does not set it
DefaultMaxQuestions == 10

(***************************************************************************)
(* JSON values as the loader sees them.  A value carries its Python type,  *)
(* so that an operation applied to the wrong type raises as Python does.   *)
(* Question text is a sequence of characters (str.strip works on it);      *)
(* options and answers are strings compared with ==.                       *)
(***************************************************************************)
Str(chars) == [type |-> "str", val |-> chars]

Num == [type |-> "number", val |-> <<>>]

List(items) == [type |-> "list", val |-> items]

Dict(fields) == [type |-> "dict", val |-> fields]

Q1 == Dict([question |-> Str(<<"Q", "1">>), options |-> List(<<"Berlin", "Paris">>), correct_answer |-> "Paris"])

Q2 == Dict([question |-> Str(<<"Q", "2">>), options |-> List(<<"Earth", "Mars">>), correct_answer |-> "Mars"])

Q3 == Dict([question |-> Str(<<"Q", "3">>), options |-> List(<<"14", "15">>), correct_answer |-> "15"])

\* an entry whose text is only whitespace
QBlank == Dict([question |-> Str(<<" ", " ">>), options |-> List(<<"a", "b">>), correct_answer |-> "a"])

\* an entry whose text is a JSON number
QNumText == Dict([question |-> Num, options |-> List(<<"a", "b">>), correct_answer |-> "a"])

EntryPool == <<Q1, QBlank, Q2, QNumText, Q3>>

\* further shapes of entries: empty text, text with blanks around it, a key
\* missing, one option only, options that are a string, an answer that is
\* not an option, an entry that is a number, an entry that is a string
QEmpty == Dict([question |-> Str(<<>>), options |-> List(<<"a", "b">>), correct_answer |-> "a"])

QPadded == Dict([question |-> Str(<<" ", "Q", " ">>), options |-> List(<<"a", "b">>), correct_answer |-> "b"])

QNoAnswer == Dict([question |-> Str(<<"Q", "4">>), options |-> List(<<"a", "b">>)])

QOneOption == Dict([question |-> Str(<<"Q", "5">>), options |-> List(<<"a">>), correct_answer |-> "a"])

QOptionsStr == Dict([question |-> Str(<<"Q", "6">>), options |-> Str(<<"a", "b">>), correct_answer |-> "a"])

QWrongAnswer == Dict([question |-> Str(<<"Q", "7">>), options |-> List(<<"a", "b">>), correct_answer |-> "z"])

\* an entry that is not an object holds its value in a one-field record, so
\* that the val of every entry is a record
NumEntry == [type |-> "number", val |-> [number |-> 5]]

StrEntry == [type |-> "str", val |-> [chars |-> <<"a", "b", "c">>]]

ShapePool == {Q1, Q2, QBlank, QEmpty, QPadded, QNumText, QNoAnswer, QOneOption, QOptionsStr,
              QWrongAnswer, NumEntry, StrEntry}

Whitespace == {" ", "\t", "\n"}

\* variant: nothing stripped
Strip_Nothing(cs) == cs

(***************************************************************************)
(* str.strip(): drops leading and trailing whitespace.                     *)
(***************************************************************************)
RECURSIVE LStrip(_)
LStrip(cs) == IF cs # <<>> /\ Head(cs) \in Whitespace THEN LStrip(Tail(cs)) ELSE cs

RECURSIVE RStrip(_)
RStrip(cs) == IF cs # <<>> /\ cs[Len(cs)] \in Whitespace THEN RStrip(SubSeq(cs, 1, Len(cs) - 1)) ELSE cs

Strip(cs) == RStrip(LStrip(cs))

SeqToSet(s) == {s[i] : i \in DOMAIN s}

required_question_keys == {"question", "options", "correct_answer"}

(***************************************************************************)
(* QuizService._validate_question.  The result is "valid", "invalid" or    *)
(* "raise": `key in question` raises TypeError on a number, and .strip()   *)
(* raises AttributeError on a text that is not a str.                      *)
(***************************************************************************)
ValidateQuestion(question) ==
    IF question.type = "number" THEN "raise"
    ELSE IF question.type # "dict" THEN "invalid"
    ELSE IF ~(required_question_keys \subseteq DOMAIN question.val) THEN "invalid"
    ELSE IF question.val.question.type # "str" THEN "raise"
    ELSE IF Strip(question.val.question.val) = <<>> THEN "invalid"
    ELSE IF question.val.options.type # "list" \/ Len(question.val.options.val) < 2 THEN "invalid"
    ELSE IF question.val.correct_answer \notin SeqToSet(question.val.options.val) THEN "invalid"
    ELSE "valid"

(***************************************************************************)
(* The validation loop of load_questions over the parsed entries, in       *)
(* order; raised is TRUE when _validate_question raised on some entry.     *)
(***************************************************************************)
RECURSIVE ValidateAll(_)
ValidateAll(entries) ==
    IF entries = <<>> THEN [raised |-> FALSE, questions |-> <<>>]
    ELSE LET v == ValidateQuestion(Head(entries))
             rest == ValidateAll(Tail(entries))
         IN  IF v = "raise" \/ rest.raised THEN [raised |-> TRUE, questions |-> <<>>]
             ELSE IF v = "valid" THEN [raised |-> FALSE, questions |-> <<Head(entries)>> \o rest.questions]
             ELSE rest

(***************************************************************************)
(* The question file.  state is what opening and parsing it gives:         *)
(* "missing" (exists() is false), "unreadable" (IOError), "malformed"      *)
(* (JSONDecodeError), "undecodable" (bytes that are not UTF-8:             *)
(* UnicodeDecodeError) or "parsed" with the parsed JSON value.             *)
(***************************************************************************)
File(state, json) == [state |-> state, json |-> json]

NoCache == [loaded |-> FALSE, questions |-> <<>>]

(***************************************************************************)
(* QuizService.load_questions: the result, whether it raised, and the      *)
(* cache after the call.                                                   *)
(***************************************************************************)
LoadQuestions(cache, file) ==
    IF cache.loaded THEN [raised |-> FALSE, result |-> cache.questions, cache |-> cache, read |-> FALSE]
    ELSE IF file.state = "missing" THEN [raised |-> FALSE, result |-> <<>>, cache |-> cache, read |-> FALSE]
    ELSE IF file.state \in {"unreadable", "malformed"} THEN [raised |-> FALSE, result |-> <<>>, cache |-> cache, read |-> TRUE]
    ELSE IF file.state = "undecodable" THEN [raised |-> TRUE, result |-> <<>>, cache |-> cache, read |-> TRUE]
    ELSE IF file.json.type # "list" THEN [raised |-> TRUE, result |-> <<>>, cache |-> cache, read |-> TRUE]
    ELSE LET v == ValidateAll(file.json.val)
         IN  IF v.raised THEN [raised |-> TRUE, result |-> <<>>, cache |-> cache, read |-> TRUE]
             ELSE [raised |-> FALSE, result |-> v.questions,
                   cache |-> [loaded |-> TRUE, questions |-> v.questions], read |-> TRUE]

Perms(n) == {p \in [1..n -> 1..n] : \A i, j \in 1..n : p[i] = p[j] => i = j}

Max(a, b) == IF a > b THEN a ELSE b

\* Python's seq[:m]
SliceTo(s, m) == IF m >= 0 THEN SubSeq(s, 1, IF m < Len(s) THEN m ELSE Len(s))
                 ELSE SubSeq(s, 1, Max(Len(s) + m, 0))

\* variant: no copy, the name bound to the list that was passed
ListCopy_Alias(lst) == [items |-> lst, shared |-> TRUE]

\* list.copy(): a new list object with the same items; shared tells whether
\* the result is the very object that was copied
ListCopy(lst) == [items |-> lst, shared |-> FALSE]

\* random.shuffle(lst) with the permutation p drawn
Shuffled(lst, p) == [i \in 1..Len(lst) |-> lst[p[i]]]

\* the list load_questions returned, as it is after get_shuffled_questions
\* shuffled its copy of it
BankAfterShuffle(bank, p) == IF ListCopy(bank).shared THEN Shuffled(bank, p) ELSE bank

(***************************************************************************)
(* QuizService.get_shuffled_questions on the loaded bank: a copy permuted  *)
(* by p (random.shuffle), cut to max_questions when that is truthy and     *)
(* smaller than the bank.                                                  *)
(***************************************************************************)
GetShuffledQuestions(bank, max_questions, p) ==
    LET questions == Shuffled(ListCopy(bank).items, p)
    IN  IF max_questions # 0 /\ Len(questions) > max_questions
        THEN SliceTo(questions, max_questions)
        ELSE questions

(***************************************************************************)
(* round((n / d) * 100) as Python evaluates it in binary floating point:   *)
(* the nearest integer, a tie going to the even neighbour.  For the pairs  *)
(* below the product is not the exact tie n/d*100 = k + 0.5 but the double *)
(* next to it, so round() goes to the neighbour that is not even; these    *)
(* are all such pairs with d < 260.                                        *)
(***************************************************************************)
BinaryTies == {<<23, 40>>, <<46, 80>>, <<69, 120>>, <<92, 160>>, <<109, 200>>, <<115, 200>>, <<138, 240>>}

PyRoundPercent(n, d) ==
    LET q == (100 * n) \div d
        r == (100 * n) % d
    IN  IF 2 * r > d THEN q + 1
        ELSE IF 2 * r < d THEN q
        ELSE IF (q % 2 = 0) = (<<n, d>> \notin BinaryTies) THEN q
        ELSE q + 1

(***************************************************************************)
(* The Flask session as a Python mapping: a function from the keys that    *)
(* are set to their values.                                                *)
(***************************************************************************)
EmptySession == [k \in {} |-> 0]

Has(s, key) == key \in DOMAIN s

SetItem(s, key, value) == [k \in DOMAIN s \cup {key} |-> IF k = key THEN value ELSE s[k]]

\* session.clear()
SessionClear(s) == EmptySession

\* session.get(key, default)
SessionGet(s, key, default) == IF Has(s, key) THEN s[key] ELSE default

(***************************************************************************)
(* Responses: a rendered template or a redirect to an endpoint, with the   *)
(* message the handler flashed, if any.                                    *)
(***************************************************************************)
NoFlash == [category |-> "none", message |-> ""]

Flash(category, message) == [category |-> category, message |-> message]

NoData == [k \in {} |-> 0]

Redirect(endpoint, flash) == [status |-> "redirect", target |-> endpoint, flash |-> flash, data |-> NoData]

Render(template, flash, data) == [status |-> "render", target |-> template, flash |-> flash, data |-> data]

NoResponse == [status |-> "none", target |-> "", flash |-> NoFlash, data |-> NoData]

(***************************************************************************)
(* request.form: a mapping that has the field "answer" or not.             *)
(***************************************************************************)
NoForm == [k \in {} |-> ""]

AnswerForm(a) == [k \in {"answer"} |-> a]

UserAnswers == {"Paris", "Mars"}

Forms == {NoForm} \cup {AnswerForm(a) : a \in UserAnswers \cup {""}}

\* request.form.get("answer"): None when the field is absent
FormGet(form, key) == IF key \in DOMAIN form THEN [isNone |-> FALSE, str |-> form[key]]
                      ELSE [isNone |-> TRUE, str |-> ""]

\* variant: only None is refused
Falsy_NoneOnly(v) == v.isNone

\* `not user_answer`
Falsy(v) == v.isNone \/ v.str = ""

Request(method, path, form) == [method |-> method, path |-> path, form |-> form]

NoRequest == Request("", "", NoForm)

\* variant: any() in place of all()
IsValidQuizSession_Any(s) == \E key \in {"quiz_questions", "score", "current_question_index"} : Has(s, key)

(***************************************************************************)
(* _is_valid_quiz_session                                                  *)
(***************************************************************************)
required_keys == {"quiz_questions", "score", "current_question_index"}

IsValidQuizSession(s) == \A key \in required_keys : Has(s, key)

\* seq[idx] of Python, positions counted from 0 and negative ones from the end
InRange(seq, idx) == idx >= -Len(seq) /\ idx < Len(seq)

PyIndex(seq, idx) == IF idx >= 0 THEN seq[idx + 1] ELSE seq[Len(seq) + idx + 1]

\* variant: the comparison inverted
IsCorrect_Inverted(user_answer, correct_answer) == user_answer # correct_answer

\* is_correct = user_answer == correct_answer
IsCorrect(user_answer, correct_answer) == user_answer = correct_answer

AnswerRecord(current_question, user_answer) ==
    [question |-> current_question.val.question,
     user_answer |-> user_answer,
     correct_answer |-> current_question.val.correct_answer,
     is_correct |-> IsCorrect(user_answer, current_question.val.correct_answer),
     options |-> current_question.val.options]

Outcome(s, raised, response) == [session |-> s, raised |-> raised, response |-> response]

\* an exception leaving the handler: the session keeps what was written before
Raise(s) == Outcome(s, TRUE, NoResponse)

\* variant: the list replaced by the new record instead of extended
RecordAnswer_Replace(s, answer_record) == SetItem(s, "answers", <<answer_record>>)

\* session["answers"].append(answer_record), the list created when absent
RecordAnswer(s, answer_record) ==
    LET s1 == IF ~Has(s, "answers") THEN SetItem(s, "answers", <<>>) ELSE s
    IN  SetItem(s1, "answers", Append(s1.answers, answer_record))

\* variant: the score counts every answer
UpdateScore_Always(s, is_correct) == SetItem(s, "score", s.score + 1)

\* variant: a correct answer counts twice
UpdateScore_Double(s, is_correct) == IF is_correct THEN SetItem(s, "score", s.score + 2) ELSE s

\* if is_correct: session["score"] += 1   (the key is there)
UpdateScore(s, is_correct) == IF is_correct THEN SetItem(s, "score", s.score + 1) ELSE s

\* variant: the index is not advanced
NextQuestion_Stay(s) == s

\* session["current_question_index"] += 1
NextQuestion(s) == SetItem(s, "current_question_index", s.current_question_index + 1)

\* variant: > in place of >=
AnswerRedirect_Strict(s) ==
    IF s.current_question_index > Len(s.quiz_questions)
    THEN Redirect("results", NoFlash)
    ELSE Redirect("quiz", NoFlash)

\* the redirect that ends an accepted submission
AnswerRedirect(s) ==
    IF s.current_question_index >= Len(s.quiz_questions)
    THEN Redirect("results", NoFlash)
    ELSE Redirect("quiz", NoFlash)

(***************************************************************************)
(* _handle_quiz_answer, statement by statement.                            *)
(***************************************************************************)
HandleQuizAnswer(s, form) ==
    LET user_answer == FormGet(form, "answer")
    IN  IF Falsy(user_answer)
        THEN Outcome(s, FALSE, Redirect("quiz", Flash("warning", "select an answer")))
        ELSE IF ~Has(s, "current_question_index") \/ ~Has(s, "quiz_questions") THEN Raise(s)
        ELSE IF ~InRange(s.quiz_questions, s.current_question_index) THEN Raise(s)
        ELSE
        LET current_question == PyIndex(s.quiz_questions, s.current_question_index)
        IN  IF current_question.type # "dict"
               \/ ~({"question", "options", "correct_answer"} \subseteq DOMAIN current_question.val)
            THEN Raise(s)
            ELSE
            LET answer_record == AnswerRecord(current_question, user_answer.str)
                s2 == RecordAnswer(s, answer_record)
            IN  IF answer_record.is_correct /\ ~Has(s2, "score") THEN Raise(s2)
                ELSE LET s4 == NextQuestion(UpdateScore(s2, answer_record.is_correct))
                     IN  Outcome(s4, FALSE, AnswerRedirect(s4))

\* variant: the number of the question shown counted as done
ProgressPercentage_Shown(idx, total_questions) == PyRoundPercent(idx + 1, total_questions)

\* progress_percentage = round((idx / total_questions) * 100)
ProgressPercentage(idx, total_questions) == PyRoundPercent(idx, total_questions)

\* variant: > in place of >=
NoCurrentQuestion_Strict(idx, total_questions) == idx > total_questions

\* the index check before a question is shown
NoCurrentQuestion(idx, total_questions) == idx >= total_questions

(***************************************************************************)
(* _display_current_question                                               *)
(***************************************************************************)
DisplayCurrentQuestion(s) ==
    IF ~Has(s, "current_question_index") \/ ~Has(s, "quiz_questions") THEN Raise(s)
    ELSE
    LET idx == s.current_question_index
        total_questions == Len(s.quiz_questions)
    IN  IF NoCurrentQuestion(idx, total_questions) THEN Outcome(s, FALSE, Redirect("results", NoFlash))
        ELSE IF ~InRange(s.quiz_questions, idx) THEN Raise(s)
        ELSE IF total_questions = 0 THEN Raise(s)
        ELSE Outcome(s, FALSE, Render("quiz.html", NoFlash,
                 [question |-> PyIndex(s.quiz_questions, idx),
                  total_questions |-> total_questions,
                  current_question_number |-> idx + 1,
                  progress_percentage |-> ProgressPercentage(idx, total_questions)]))

(***************************************************************************)
(* The route /quiz: the session guard, the handler of the method, and the  *)
(* except clause that turns a raised exception into a flash and a redirect.*)
(***************************************************************************)
QuizRoute(s, method, form) ==
    IF ~IsValidQuizSession(s)
    THEN Outcome(s, FALSE, Redirect("index", Flash("warning", "session expired")))
    ELSE LET h == IF method = "POST" THEN HandleQuizAnswer(s, form) ELSE DisplayCurrentQuestion(s)
         IN  IF h.raised
             THEN Outcome(h.session, FALSE, Redirect("index", Flash("error", "quiz error")))
             ELSE h

\* variant: > in place of >=
PerformanceClass_Strict(percentage) ==
    IF percentage > 80 THEN "excellent"
    ELSE IF percentage > 60 THEN "good"
    ELSE IF percentage > 40 THEN "average"
    ELSE "needs-improvement"

(***************************************************************************)
(* The performance class of the route /results.                            *)
(***************************************************************************)
PerformanceClass(percentage) ==
    IF percentage >= 80 THEN "excellent"
    ELSE IF percentage >= 60 THEN "good"
    ELSE IF percentage >= 40 THEN "average"
    ELSE "needs-improvement"

Percentage(score, total_questions) ==
    IF total_questions > 0 THEN PyRoundPercent(score, total_questions) ELSE 0

\* variant: the session kept
ClearAfterResults_Keep(s) == s

\* the session.clear() of the route /results, after the summary is computed
ClearAfterResults(s) == SessionClear(s)

(***************************************************************************)
(* The route /results.                                                     *)
(***************************************************************************)
ResultsRoute(s) ==
    IF ~IsValidQuizSession(s)
    THEN Outcome(s, FALSE, Redirect("index", Flash("warning", "no results")))
    ELSE IF ~Has(s, "quiz_questions") \/ ~Has(s, "score")
    THEN Outcome(s, FALSE, Redirect("index", Flash("error", "results error")))
    ELSE LET total_questions == Len(s.quiz_questions)
             score == s.score
             answers == SessionGet(s, "answers", <<>>)
             percentage == Percentage(score, total_questions)
         IN  Outcome(ClearAfterResults(s), FALSE, Render("results.html", NoFlash,
                 [score |-> score,
                  total_questions |-> total_questions,
                  percentage |-> percentage,
                  performance_class |-> PerformanceClass(percentage),
                  answers |-> answers]))

(***************************************************************************)
(* The route /: the session is cleared first; when loading raises, the     *)
(* except clause renders the page with the session left cleared.           *)
(***************************************************************************)
IndexRoute(s, load, max_questions, p) ==
    IF load.raised
    THEN Outcome(SessionClear(s), FALSE, Render("index.html", Flash("error", "start error"), [total_questions |-> 0]))
    ELSE LET questions == GetShuffledQuestions(load.result, max_questions, p)
             s1 == SetItem(SessionClear(s), "quiz_questions", questions)
             s2 == SetItem(s1, "score", 0)
             s3 == SetItem(s2, "current_question_index", 0)
             s4 == SetItem(s3, "answers", <<>>)
         IN  Outcome(s4, FALSE,
                 Render("index.html",
                        IF questions = <<>> THEN Flash("error", "no questions") ELSE NoFlash,
                        [total_questions |-> Len(questions)]))

(***************************************************************************)
(* State.                                                                  *)
(*   questions_file          the file QuizService reads                    *)
(*   MAX_QUESTIONS_PER_QUIZ  app.config value, fixed when the app starts   *)
(*   questions_cache         QuizService._questions_cache                  *)
(*   session                 the Flask session of the client               *)
(*   request, response       the request handled last and its response     *)
(*   submitted               history: non-empty answers posted to a valid  *)
(*                           session since the last GET /                  *)
(*   summarized              history: a summary was rendered since the     *)
(*                           last GET /                                    *)
(*   last_load               history: what the last call of load_questions *)
(*                           returned and whether it read the file         *)
(*   issued                  the session cookies a client that keeps its   *)
(*                           cookies holds (empty for a client that only   *)
(*                           ever sends the latest one)                    *)
(***************************************************************************)
VARIABLES questions_file, MAX_QUESTIONS_PER_QUIZ, questions_cache, session,
          request, response, submitted, summarized, last_load, issued

vars == <<questions_file, MAX_QUESTIONS_PER_QUIZ, questions_cache, session,
          request, response, submitted, summarized, last_load, issued>>

NoLoad == [called |-> FALSE, raised |-> FALSE, result |-> <<>>, read |-> FALSE]

\* the cookies held once the response carrying the session s has arrived
Kept(cookies, s) ==
    IF cookies = {} \/ Cardinality(cookies \cup {s}) > MaxKept THEN cookies ELSE cookies \cup {s}

\* the entries of seq at the positions in S, in the order of seq
RECURSIVE PickFrom(_, _, _)
PickFrom(seq, S, i) ==
    IF i > Len(seq) THEN <<>>
    ELSE (IF i \in S THEN <<seq[i]>> ELSE <<>>) \o PickFrom(seq, S, i + 1)

\* the lists of at most n entries taken from seq
SubLists(seq, n) == {PickFrom(seq, S, 1) : S \in {T \in SUBSET (1..Len(seq)) : Cardinality(T) <= n}}

\* the question files tried: every way opening and parsing can end, and the
\* entry lists that can be cut out of EntryPool
SourceFiles ==
    {File("missing", Num), File("unreadable", Num), File("malformed", Num),
     File("undecodable", Num), File("parsed", Num)}
    \cup {File("parsed", List(es)) : es \in SubLists(EntryPool, MaxEntries)}

\* values of MAX_QUESTIONS_PER_QUIZ: 0, the small ones and the default
LimitValues == (0 .. MaxLimit) \cup {DefaultMaxQuestions}

\* the app right after create_app(): nothing loaded, no session, no request
Init ==
    /\ questions_file \in SourceFiles
    /\ MAX_QUESTIONS_PER_QUIZ \in LimitValues
    /\ questions_cache = NoCache
    /\ session = EmptySession
    /\ request = NoRequest
    /\ response = NoResponse
    /\ submitted = 0
    /\ summarized = FALSE
    /\ last_load = NoLoad
    /\ issued = {}

\* GET /
GetIndex ==
    LET load == LoadQuestions(questions_cache, questions_file)
    IN  \E p \in Perms(Len(load.result)) :
            LET o == IndexRoute(session, load, MAX_QUESTIONS_PER_QUIZ, p)
            IN  /\ session' = o.session
                /\ response' = o.response
                /\ questions_cache' = IF load.cache.loaded
                                       THEN [loaded |-> TRUE, questions |-> BankAfterShuffle(load.cache.questions, p)]
                                       ELSE load.cache
                /\ request' = Request("GET", "/", NoForm)
                /\ submitted' = 0
                /\ summarized' = FALSE
                /\ last_load' = [called |-> TRUE, raised |-> load.raised, result |-> load.result, read |-> load.read]
                /\ issued' = Kept(issued, o.session)
                /\ UNCHANGED <<questions_file, MAX_QUESTIONS_PER_QUIZ>>

\* GET /quiz
GetQuiz ==
    LET o == QuizRoute(session, "GET", NoForm)
    IN  /\ session' = o.session
        /\ response' = o.response
        /\ request' = Request("GET", "/quiz", NoForm)
        /\ issued' = Kept(issued, o.session)
        /\ UNCHANGED <<questions_file, MAX_QUESTIONS_PER_QUIZ, questions_cache, submitted, summarized, last_load>>

\* POST /quiz with any form
PostQuiz ==
    \E form \in Forms :
        LET o == QuizRoute(session, "POST", form)
            counts == IsValidQuizSession(session) /\ ~Falsy(FormGet(form, "answer"))
        IN  /\ counts => submitted < MaxSubmitted
            /\ session' = o.session
            /\ response' = o.response
            /\ request' = Request("POST", "/quiz", form)
            /\ submitted' = IF counts THEN submitted + 1 ELSE submitted
            /\ issued' = Kept(issued, o.session)
            /\ UNCHANGED <<questions_file, MAX_QUESTIONS_PER_QUIZ, questions_cache, summarized, last_load>>

\* GET /results
GetResults ==
    LET o == ResultsRoute(session)
    IN  /\ session' = o.session
        /\ response' = o.response
        /\ request' = Request("GET", "/results", NoForm)
        /\ summarized' = (summarized \/ o.response.status = "render")
        /\ issued' = Kept(issued, o.session)
        /\ UNCHANGED <<questions_file, MAX_QUESTIONS_PER_QUIZ, questions_cache, submitted, last_load>>

Next == GetIndex \/ GetQuiz \/ PostQuiz \/ GetResults

Spec == Init /\ [][Next]_vars

(***************************************************************************)
(* Sessions built by the handlers themselves, used as starting points.     *)
(***************************************************************************)
Loaded(bank) == [raised |-> FALSE, result |-> bank, cache |-> [loaded |-> TRUE, questions |-> bank], read |-> TRUE]

\* the session GET / leaves for the quiz qs
StartedWith(qs) == IndexRoute(EmptySession, Loaded(qs), 0, [i \in 1..Len(qs) |-> i]).session

\* the session after the first k questions were answered, the first c correctly
Answered(qs, k, c) ==
    LET right(i) == qs[i].val.correct_answer
        wrong(i) == CHOOSE a \in UserAnswers : a # right(i)
        started == StartedWith(qs)
    IN  [key \in DOMAIN started |->
            CASE key = "answers" -> [i \in 1..k |-> AnswerRecord(qs[i], IF i <= c THEN right(i) ELSE wrong(i))]
              [] key = "score" -> IF c < k THEN c ELSE k
              [] key = "current_question_index" -> k
              [] OTHER -> started[key]]

\* a quiz of n questions
Quiz(n) == [i \in 1..n |-> <<Q1, Q2, Q3>>[((i - 1) % 3) + 1]]

\* the mapping s cut down to the keys in K
Restrict(s, K) == [k \in K \cap DOMAIN s |-> s[k]]

(***************************************************************************)
(* SpecGuard: the routes behind the session guard, started from sessions   *)
(* that carry any subset of the four keys (a cookie written by another     *)
(* version of the application: lines 274 and 353 expect that "answers"     *)
(* can be missing).                                                        *)
(***************************************************************************)
GuardSessions ==
    {Restrict(Answered(Quiz(2), k, 1), K) : k \in 0..2, K \in SUBSET {"quiz_questions", "score", "current_question_index", "answers"}}

InitGuard ==
    /\ questions_file = File("parsed", List(Quiz(2)))
    /\ MAX_QUESTIONS_PER_QUIZ = DefaultMaxQuestions
    /\ questions_cache = [loaded |-> TRUE, questions |-> Quiz(2)]
    /\ session \in GuardSessions
    /\ request = NoRequest
    /\ response = NoResponse
    /\ submitted = 0
    /\ summarized = FALSE
    /\ last_load = NoLoad
    /\ issued = {}

NextGuard == GetQuiz \/ PostQuiz \/ GetResults

SpecGuard == InitGuard /\ [][NextGuard]_vars

(***************************************************************************)
(* SpecProgress: GET /quiz on the sessions of quizzes of every length up   *)
(* to MaxProgressTotal, at every position.                                 *)
(***************************************************************************)
InitProgress ==
    /\ \E n \in 0..MaxProgressTotal :
        /\ questions_file = File("parsed", List(Quiz(n)))
        /\ questions_cache = [loaded |-> TRUE, questions |-> Quiz(n)]
        /\ \E k \in 0..n : session = Answered(Quiz(n), k, k)
    /\ MAX_QUESTIONS_PER_QUIZ = 0
    /\ request = NoRequest
    /\ response = NoResponse
    /\ submitted = session.current_question_index
    /\ summarized = FALSE
    /\ last_load = NoLoad
    /\ issued = {}

NextProgress == GetQuiz

SpecProgress == InitProgress /\ [][NextProgress]_vars

(***************************************************************************)
(* SpecResults: GET /results on the completed sessions of quizzes of every *)
(* length up to MaxResultsTotal, with every score.                         *)
(***************************************************************************)
InitResults ==
    /\ \E n \in 0..MaxResultsTotal :
        /\ questions_file = File("parsed", List(Quiz(n)))
        /\ questions_cache = [loaded |-> TRUE, questions |-> Quiz(n)]
        /\ \E c \in 0..n : session = Answered(Quiz(n), n, c)
    /\ MAX_QUESTIONS_PER_QUIZ = 0
    /\ request = NoRequest
    /\ response = NoResponse
    /\ submitted = session.current_question_index
    /\ summarized = FALSE
    /\ last_load = NoLoad
    /\ issued = {}

NextResults == GetResults

SpecResults == InitResults /\ [][NextResults]_vars

(***************************************************************************)
(* SpecLoad: GET / (the caller of load_questions) on question files whose  *)
(* entries have every shape of ShapePool, and on the files that cannot be  *)
(* opened or parsed.                                                       *)
(***************************************************************************)
ShapeFiles ==
    {File("missing", Num), File("unreadable", Num), File("malformed", Num),
     File("undecodable", Num), File("parsed", Num)}
    \cup {File("parsed", List(es)) : es \in UNION {[1..k -> ShapePool] : k \in 0..MaxShapeEntries}}

InitLoad ==
    /\ questions_file \in ShapeFiles
    /\ MAX_QUESTIONS_PER_QUIZ = DefaultMaxQuestions
    /\ questions_cache = NoCache
    /\ session = EmptySession
    /\ request = NoRequest
    /\ response = NoResponse
    /\ submitted = 0
    /\ summarized = FALSE
    /\ last_load = NoLoad
    /\ issued = {}

NextLoad == GetIndex

SpecLoad == InitLoad /\ [][NextLoad]_vars

(***************************************************************************)
(* SpecReplay: a client (or several sharing the cookies) that keeps every  *)
(* session cookie it was sent and may send any of them with its next       *)
(* request: replays of older snapshots, and requests made concurrently     *)
(* with the same snapshot, each of which is handled on its own copy.       *)
(***************************************************************************)
ReplayFiles == {File("missing", Num), File("parsed", List(Quiz(2)))}

InitReplay ==
    /\ questions_file \in ReplayFiles
    /\ MAX_QUESTIONS_PER_QUIZ = DefaultMaxQuestions
    /\ questions_cache = NoCache
    /\ session = EmptySession
    /\ request = NoRequest
    /\ response = NoResponse
    /\ submitted = 0
    /\ summarized = FALSE
    /\ last_load = NoLoad
    /\ issued = {EmptySession}

\* the client takes one of the cookies it holds for its next request
Present ==
    /\ \E s \in issued : s # session /\ session' = s
    /\ request' = NoRequest
    /\ response' = NoResponse
    /\ UNCHANGED <<questions_file, MAX_QUESTIONS_PER_QUIZ, questions_cache, submitted, summarized, last_load, issued>>

NextReplay == GetIndex \/ GetQuiz \/ PostQuiz \/ GetResults \/ Present

SpecReplay == InitReplay /\ [][NextReplay]_vars

(***************************************************************************)
(* Vocabulary of the properties, written on the state itself.              *)
(***************************************************************************)
QuizKeys == {"quiz_questions", "score", "current_question_index", "answers"}

Started == QuizKeys \subseteq DOMAIN session

IsPost == request.method = "POST" /\ request.path = "/quiz"

\* the request handled by the step is a POST /quiz carrying a non-empty answer
PostsAnswer == /\ request'.method = "POST" /\ request'.path = "/quiz"
               /\ "answer" \in DOMAIN request'.form
               /\ request'.form["answer"] # ""

\* the request handled by the step is a POST /quiz with no answer or an empty one
PostsNothing == /\ request'.method = "POST" /\ request'.path = "/quiz"
                /\ ("answer" \in DOMAIN request'.form => request'.form["answer"] = "")

InProgress == Started /\ session.current_question_index < Len(session.quiz_questions)

Completed == Started /\ session.current_question_index = Len(session.quiz_questions)

(***************************************************************************)
(* C1: from GET / on, under any sequence of GET /quiz and POST /quiz       *)
(* requests, a session is either empty or carries all four keys, and then  *)
(* 0 <= score <= len(answers) = current_question_index <=                  *)
(* len(quiz_questions).                                                    *)
(***************************************************************************)
C1_SessionInvariant ==
    /\ session = EmptySession \/ DOMAIN session = QuizKeys
    /\ Started =>
        /\ 0 <= session.score
        /\ session.score <= Len(session.answers)
        /\ Len(session.answers) = session.current_question_index
        /\ session.current_question_index <= Len(session.quiz_questions)

C1_Witness ==
    /\ Completed
    /\ Len(session.quiz_questions) = 3
    /\ session.score = 2
    /\ IsPost

(***************************************************************************)
(* C2: a POST /quiz with a non-empty answer on an in-progress session      *)
(* appends exactly one record, correct iff the answer equals the           *)
(* correct_answer of the question at current_question_index, adds 1 to     *)
(* score iff the record is correct, adds 1 to current_question_index and   *)
(* leaves quiz_questions and the earlier records as they were.             *)
(***************************************************************************)
C2_SubmitEffect ==
    [][(PostsAnswer /\ InProgress) =>
        LET q == session.quiz_questions[session.current_question_index + 1]
            a == request'.form["answer"]
            n == Len(session.answers)
        IN  /\ DOMAIN session' = DOMAIN session
            /\ Len(session'.answers) = n + 1
            /\ SubSeq(session'.answers, 1, n) = session.answers
            /\ session'.answers[n + 1].user_answer = a
            /\ session'.answers[n + 1].is_correct = (a = q.val.correct_answer)
            /\ session'.score = session.score + (IF a = q.val.correct_answer THEN 1 ELSE 0)
            /\ session'.current_question_index = session.current_question_index + 1
            /\ session'.quiz_questions = session.quiz_questions]_vars

C2_Witness ==
    /\ IsPost
    /\ Started
    /\ Len(session.answers) = 2
    /\ session.answers[1].is_correct
    /\ ~session.answers[2].is_correct
    /\ session.score = 1

(***************************************************************************)
(* C3: a POST /quiz without an answer, or with an empty one, on a valid    *)
(* session changes no session field and redirects to the quiz.             *)
(***************************************************************************)
C3_EmptyAnswerReprompts ==
    [][(PostsNothing /\ Started) =>
        /\ session' = session
        /\ response'.status = "redirect"
        /\ response'.target = "quiz"]_vars

C3_Witness ==
    /\ IsPost
    /\ request.form = AnswerForm("")
    /\ Completed
    /\ Len(session.quiz_questions) = 2
    /\ response.target = "quiz"

(***************************************************************************)
(* C4: a session started with n >= 1 questions is Completed exactly from   *)
(* its n-th non-empty submission on; that POST redirects to results, each  *)
(* earlier one to the next question.  One question with correct answer     *)
(* "Paris" and the submission "Paris" give score 1, index 1, Completed.    *)
(***************************************************************************)
C4_CompletesOnNth ==
    /\ []((Started /\ Len(session.quiz_questions) >= 1) =>
            (Completed <=> submitted >= Len(session.quiz_questions)))
    /\ [][(PostsAnswer /\ InProgress) =>
            /\ response'.status = "redirect"
            /\ response'.target = (IF submitted' = Len(session.quiz_questions) THEN "results" ELSE "quiz")
            /\ (submitted' < Len(session.quiz_questions) =>
                    session'.current_question_index < Len(session'.quiz_questions))]_vars
    /\ [][(PostsAnswer /\ InProgress /\ session.quiz_questions = <<Q1>> /\ request'.form["answer"] = "Paris") =>
            /\ session'.score = 1
            /\ session'.current_question_index = 1
            /\ Len(session'.quiz_questions) = 1
            /\ response'.target = "results"]_vars

C4_Witness ==
    /\ IsPost
    /\ request.form = AnswerForm("Paris")
    /\ Started
    /\ session.quiz_questions = <<Q1>>
    /\ session.score = 1
    /\ session.current_question_index = 1
    /\ submitted = 1
    /\ response.target = "results"

(***************************************************************************)
(* C5: GET / always resets: whatever the session was and whatever loading  *)
(* the question bank did, the session afterwards holds score 0, index 0,   *)
(* no answers and a fresh selection of the bank.                           *)
(***************************************************************************)
C5_IndexAlwaysResets ==
    (request.method = "GET" /\ request.path = "/") =>
        /\ DOMAIN session = QuizKeys
        /\ session.score = 0
        /\ session.current_question_index = 0
        /\ session.answers = <<>>
        /\ \A i \in DOMAIN session.quiz_questions :
               \E j \in DOMAIN questions_cache.questions :
                   session.quiz_questions[i] = questions_cache.questions[j]

(***************************************************************************)
(* C6: a request to /quiz (GET or POST) or /results whose session lacks    *)
(* one of quiz_questions, score, current_question_index is redirected to   *)
(* the start and leaves the session as it was.                             *)
(***************************************************************************)
C6_GuardRedirects ==
    [][(/\ request'.path \in {"/quiz", "/results"}
        /\ \E key \in {"quiz_questions", "score", "current_question_index"} : key \notin DOMAIN session) =>
        /\ session' = session
        /\ response'.status = "redirect"
        /\ response'.target = "index"]_vars

C6_Witness ==
    /\ DOMAIN session = {"quiz_questions", "current_question_index", "answers"}
    /\ session.current_question_index < Len(session.quiz_questions)
    /\ IsPost
    /\ request.form = AnswerForm("Paris")
    /\ response.status = "redirect"
    /\ response.target = "index"

(***************************************************************************)
(* C7: results are one-shot.  Rendering a summary clears the session, and  *)
(* from then until the next GET / every request to /results or /quiz is    *)
(* redirected to the start, so no second summary is rendered.              *)
(***************************************************************************)
C7_ResultsOneShot ==
    /\ [][(request'.path = "/results" /\ response'.status = "render") => session' = EmptySession]_vars
    /\ [][(summarized /\ request'.path \in {"/quiz", "/results"}) =>
            /\ response'.status = "redirect"
            /\ response'.target = "index"
            /\ session' = EmptySession]_vars

C7_Witness ==
    /\ summarized
    /\ request.path = "/results"
    /\ response.status = "redirect"
    /\ response.target = "index"
    /\ session = EmptySession

(***************************************************************************)
(* C8: every POST /quiz either applies the whole transition (one record    *)
(* appended, score updated by the record's correctness, index advanced by  *)
(* one) or leaves the session as it was.  A non-empty submission on a      *)
(* Completed session changes nothing and ends in an error notice and a     *)
(* redirect.                                                               *)
(***************************************************************************)
C8_PostAllOrNothing ==
    /\ [][(request'.method = "POST" /\ request'.path = "/quiz") =>
            \/ session' = session
            \/ /\ Started
               /\ DOMAIN session' = DOMAIN session
               /\ session'.quiz_questions = session.quiz_questions
               /\ Len(session'.answers) = Len(session.answers) + 1
               /\ session'.current_question_index = session.current_question_index + 1
               /\ session'.score = session.score +
                    (IF session'.answers[Len(session'.answers)].is_correct THEN 1 ELSE 0)]_vars
    /\ [][(PostsAnswer /\ Completed) =>
            /\ session' = session
            /\ response'.status = "redirect"
            /\ response'.flash.category = "error"]_vars

C8_Witness ==
    /\ IsPost
    /\ request.form = AnswerForm("Mars")
    /\ Completed
    /\ Len(session.quiz_questions) = 2
    /\ response.status = "redirect"
    /\ response.flash.category = "error"

(***************************************************************************)
(* C9 as stated: GET /quiz never changes the session; on an in-progress    *)
(* session it serves the question at the index, numbered index + 1 within  *)
(* 1..total and with a progress percentage below 100; on a session whose   *)
(* index has reached the end it redirects to results.                      *)
(***************************************************************************)
C9_ProgressBelow100 ==
    [][(request'.method = "GET" /\ request'.path = "/quiz" /\ Started) =>
        /\ session' = session
        /\ (session.current_question_index < Len(session.quiz_questions) =>
                /\ response'.status = "render"
                /\ response'.data.question = session.quiz_questions[session.current_question_index + 1]
                /\ response'.data.total_questions = Len(session.quiz_questions)
                /\ response'.data.current_question_number = session.current_question_index + 1
                /\ response'.data.current_question_number \in 1..response'.data.total_questions
                /\ response'.data.progress_percentage < 100)
        /\ (session.current_question_index >= Len(session.quiz_questions) =>
                /\ response'.status = "redirect"
                /\ response'.target = "results")]_vars

(***************************************************************************)
(* C9 amended: as above, but the progress percentage is in 0..100, and     *)
(* below 100 when the quiz has fewer than 200 questions.                   *)
(***************************************************************************)
C9_ProgressAtMost100 ==
    [][(request'.method = "GET" /\ request'.path = "/quiz" /\ Started) =>
        /\ session' = session
        /\ (session.current_question_index < Len(session.quiz_questions) =>
                /\ response'.status = "render"
                /\ response'.data.question = session.quiz_questions[session.current_question_index + 1]
                /\ response'.data.total_questions = Len(session.quiz_questions)
                /\ response'.data.current_question_number = session.current_question_index + 1
                /\ response'.data.current_question_number \in 1..response'.data.total_questions
                /\ response'.data.progress_percentage \in 0..100
                /\ (Len(session.quiz_questions) < 200 => response'.data.progress_percentage < 100))
        /\ (session.current_question_index >= Len(session.quiz_questions) =>
                /\ response'.status = "redirect"
                /\ response'.target = "results")]_vars

C9_Witness ==
    /\ request.method = "GET"
    /\ request.path = "/quiz"
    /\ Started
    /\ Len(session.quiz_questions) = 8
    /\ session.current_question_index = 7
    /\ response.status = "render"
    /\ response.data.progress_percentage = 88

(***************************************************************************)
(* C10: for a session with 0 <= score <= total the summary reports the     *)
(* session's score and total, a percentage that is 0 when total is 0 and   *)
(* otherwise the integer nearest to score/total*100, within 0..100, and    *)
(* the class excellent from 80, good from 60, average from 40 and          *)
(* needs-improvement below; score 3 of 5 gives 60 and good.                *)
(***************************************************************************)
C10_Summary ==
    [][(/\ request'.path = "/results"
        /\ {"quiz_questions", "score", "current_question_index"} \subseteq DOMAIN session
        /\ 0 <= session.score
        /\ session.score <= Len(session.quiz_questions)) =>
        LET score == session.score
            total == Len(session.quiz_questions)
            pct == response'.data.percentage
            class == response'.data.performance_class
        IN  /\ response'.status = "render"
            /\ response'.data.score = score
            /\ response'.data.total_questions = total
            /\ pct \in 0..100
            /\ (total = 0 => pct = 0)
            /\ 2 * (100 * score - pct * total) <= total
            /\ 2 * (pct * total - 100 * score) <= total
            /\ (class = "excellent") = (pct >= 80)
            /\ (class = "good") = (pct >= 60 /\ pct < 80)
            /\ (class = "average") = (pct >= 40 /\ pct < 60)
            /\ (class = "needs-improvement") = (pct < 40)
            /\ ((score = 3 /\ total = 5) => (pct = 60 /\ class = "good"))]_vars

C10_Witness ==
    /\ request.path = "/results"
    /\ response.status = "render"
    /\ response.data.score = 3
    /\ response.data.total_questions = 5
    /\ response.data.percentage = 60
    /\ response.data.performance_class = "good"

(***************************************************************************)
(* C11: for every bank and every limit passed to get_shuffled_questions,   *)
(* 0 and limits above the bank size included, the selection has at most    *)
(* limit items and at most len(bank) items, holds no question twice and    *)
(* only questions of the bank, and holds every bank question when limit    *)
(* >= len(bank).                                                           *)
(***************************************************************************)
C11_SelectionWithinLimit ==
    (request.method = "GET" /\ request.path = "/" /\ Started /\ ~last_load.raised) =>
        LET bank == last_load.result
            selected == session.quiz_questions
        IN  /\ Len(selected) <= MAX_QUESTIONS_PER_QUIZ
            /\ Len(selected) <= Len(bank)
            /\ \A i, j \in DOMAIN selected : selected[i] = selected[j] => i = j
            /\ \A i \in DOMAIN selected : \E j \in DOMAIN bank : selected[i] = bank[j]
            /\ (MAX_QUESTIONS_PER_QUIZ >= Len(bank) =>
                    \A j \in DOMAIN bank : \E i \in DOMAIN selected : selected[i] = bank[j])

(***************************************************************************)
(* C12: selecting questions never changes the cached bank: once loaded,    *)
(* the cache keeps the valid entries of the file in file order through     *)
(* every later request, and the sessions already handed out stay as they   *)
(* were when another session is started.                                   *)
(***************************************************************************)
C12_BankNotMutated ==
    /\ [][questions_cache.loaded => questions_cache' = questions_cache]_vars
    /\ [](questions_cache.loaded => questions_cache.questions = questions_file.json.val)
    /\ [][\A s \in issued : s \in issued']_vars

C12_Witness ==
    /\ request.method = "GET" /\ request.path = "/"
    /\ last_load.called /\ ~last_load.read
    /\ questions_cache.loaded
    /\ Started
    /\ session.quiz_questions # questions_cache.questions
    /\ \E s \in issued : /\ "quiz_questions" \in DOMAIN s
                         /\ s.quiz_questions = questions_cache.questions
                         /\ s.current_question_index = 1

IsGetIndex == request.method = "GET" /\ request.path = "/"

\* the file is a JSON list
ListFile == questions_file.state = "parsed" /\ questions_file.json.type = "list"

\* an entry that is an object carrying the three fields
HasFields(e) == e.type = "dict" /\ {"question", "options", "correct_answer"} \subseteq DOMAIN e.val

\* options is a list of at least 2 entries, one of them the correct answer
GoodOptions(e) ==
    /\ e.val.options.type = "list"
    /\ Len(e.val.options.val) >= 2
    /\ \E i \in DOMAIN e.val.options.val : e.val.options.val[i] = e.val.correct_answer

\* the text is a string with at least one character
NonEmptyText(e) == e.val.question.type = "str" /\ e.val.question.val # <<>>

\* the text is a string with a character that is not whitespace
NonBlankText(e) ==
    /\ e.val.question.type = "str"
    /\ \E i \in DOMAIN e.val.question.val : e.val.question.val[i] \notin {" ", "\t", "\n"}

WellFormed(e) == HasFields(e) /\ NonBlankText(e) /\ GoodOptions(e)

(***************************************************************************)
(* C13: load_questions is memoized for every kind of source: a second call *)
(* with the source unchanged returns the same sequence and does not read   *)
(* the source again.                                                       *)
(***************************************************************************)
C13_LoadMemoized ==
    [][(/\ request'.method = "GET" /\ request'.path = "/"
        /\ last_load.called /\ ~last_load.raised /\ ~last_load'.raised) =>
        /\ last_load'.result = last_load.result
        /\ ~last_load'.read]_vars

(***************************************************************************)
(* C14: when the source is missing or cannot be parsed, load_questions     *)
(* does not raise but returns an empty bank, and the quiz starts with zero *)
(* questions.                                                              *)
(***************************************************************************)
C14_LoadNeverRaises ==
    (last_load.called /\ questions_file.state \in {"missing", "unreadable", "malformed", "undecodable"}) =>
        /\ ~last_load.raised
        /\ last_load.result = <<>>
        /\ (IsGetIndex => (Started /\ session.quiz_questions = <<>> /\ response.data.total_questions = 0))

(***************************************************************************)
(* C15: for a source that parses to a list, every invalid entry, whatever  *)
(* its shape, is dropped without an exception: load_questions returns      *)
(* exactly the valid entries in source order.                              *)
(***************************************************************************)
C15_InvalidEntriesDropped ==
    (last_load.called /\ ListFile) =>
        /\ ~last_load.raised
        /\ last_load.result = SelectSeq(questions_file.json.val, WellFormed)

(***************************************************************************)
(* C16 as stated: for every record carrying the three fields,              *)
(* _validate_question returns true iff the text is non-empty, options has  *)
(* at least 2 entries and correct_answer is one of them; every question of *)
(* the cached bank and of a session has at least 2 options and its         *)
(* correct_answer among them.                                              *)
(***************************************************************************)
C16_ValidIffNonEmpty ==
    /\ ListFile =>
         \A i \in DOMAIN questions_file.json.val :
            LET e == questions_file.json.val[i]
            IN  HasFields(e) => ((ValidateQuestion(e) = "valid") <=> (NonEmptyText(e) /\ GoodOptions(e)))
    /\ \A i \in DOMAIN questions_cache.questions : GoodOptions(questions_cache.questions[i])
    /\ Started => \A i \in DOMAIN session.quiz_questions : GoodOptions(session.quiz_questions[i])

(***************************************************************************)
(* C16 amended: as above with "the text is non-empty after stripping       *)
(* whitespace"; and an entry with the three fields is in the loaded bank   *)
(* exactly when it meets the three conditions.                             *)
(***************************************************************************)
C16_ValidIffNonBlank ==
    /\ ListFile =>
         \A i \in DOMAIN questions_file.json.val :
            LET e == questions_file.json.val[i]
            IN  HasFields(e) =>
                  /\ (ValidateQuestion(e) = "valid") <=> (NonBlankText(e) /\ GoodOptions(e))
                  /\ (last_load.called /\ ~last_load.raised) =>
                        ((\E j \in DOMAIN last_load.result : last_load.result[j] = e)
                            <=> (NonBlankText(e) /\ GoodOptions(e)))
    /\ \A i \in DOMAIN questions_cache.questions : GoodOptions(questions_cache.questions[i])
    /\ Started => \A i \in DOMAIN session.quiz_questions : GoodOptions(session.quiz_questions[i])

C16_Witness ==
    /\ questions_file = File("parsed", List(<<QBlank, QPadded>>))
    /\ last_load.called
    /\ questions_cache.questions = <<QPadded>>
    /\ Started
    /\ session.quiz_questions = <<QPadded>>

(***************************************************************************)
(* C17: GET /results renders a summary and clears the session only for a   *)
(* Completed session: the session it read had current_question_index equal *)
(* to the number of questions and one answer record per question.          *)
(***************************************************************************)
C17_ResultsOnlyWhenCompleted ==
    [][(request'.method = "GET" /\ request'.path = "/results" /\ response'.status = "render") =>
        /\ Completed
        /\ Len(session.answers) = Len(session.quiz_questions)]_vars

(***************************************************************************)
(* C18: with an empty bank GET / creates a session with no questions,      *)
(* score 0 and index 0; then GET /quiz redirects to results, GET /results  *)
(* reports score 0, total 0, percentage 0, and POST /quiz changes no       *)
(* session field; every request gets a response.                           *)
(***************************************************************************)
C18_EmptyBankProceeds ==
    /\ []((IsGetIndex /\ last_load.called /\ ~last_load.raised /\ last_load.result = <<>>) =>
            /\ session = [quiz_questions |-> <<>>, score |-> 0, current_question_index |-> 0, answers |-> <<>>]
            /\ response.status = "render"
            /\ response.target = "index.html"
            /\ response.data.total_questions = 0)
    /\ [][(Started /\ session.quiz_questions = <<>> /\ request'.method = "GET" /\ request'.path = "/quiz") =>
            /\ response'.status = "redirect"
            /\ response'.target = "results"
            /\ session' = session]_vars
    /\ [][(Started /\ session.quiz_questions = <<>> /\ request'.method = "GET" /\ request'.path = "/results") =>
            /\ response'.status = "render"
            /\ response'.target = "results.html"
            /\ response'.data.score = 0
            /\ response'.data.total_questions = 0
            /\ response'.data.percentage = 0]_vars
    /\ [][(Started /\ session.quiz_questions = <<>> /\ request'.method = "POST" /\ request'.path = "/quiz") =>
            /\ response'.status = "redirect"
            /\ session' = session]_vars

C18_Witness ==
    /\ last_load.called /\ ~last_load.raised /\ last_load.result = <<>>
    /\ request.method = "GET" /\ request.path = "/results"
    /\ response.status = "render"
    /\ response.data.total_questions = 0
    /\ response.data.percentage = 0
    /\ submitted > 0

(***************************************************************************)
(* C19: in every session the answer log is aligned with the question list  *)
(* (answers[i] carries the text, correct answer and options of             *)
(* quiz_questions[i] for every answered i) and score is the number of      *)
(* records whose is_correct is true.                                       *)
(***************************************************************************)
C19_AnswersAligned ==
    Started =>
        /\ \A i \in 1..session.current_question_index :
              /\ i \in DOMAIN session.answers
              /\ i \in DOMAIN session.quiz_questions
              /\ session.answers[i].question = session.quiz_questions[i].val.question
              /\ session.answers[i].correct_answer = session.quiz_questions[i].val.correct_answer
              /\ session.answers[i].options = session.quiz_questions[i].val.options
        /\ session.score = Cardinality({i \in DOMAIN session.answers : session.answers[i].is_correct})

C19_Witness ==
    /\ Started
    /\ IsPost
    /\ session.current_question_index = 2
    /\ session.score = 1
    /\ session.answers[1].is_correct # session.answers[2].is_correct

(***************************************************************************)
(* C20: under replay and duplicate submission of session snapshots every   *)
(* snapshot the server has issued satisfies                                *)
(* score <= len(answers) = current_question_index <= len(quiz_questions),  *)
(* and handling a request alters no snapshot issued before.                *)
(***************************************************************************)
C20_SnapshotsConsistent ==
    /\ [](\A s \in issued \cup {session} :
            QuizKeys \subseteq DOMAIN s =>
                /\ s.score <= Len(s.answers)
                /\ Len(s.answers) = s.current_question_index
                /\ s.current_question_index <= Len(s.quiz_questions)
                /\ s.score <= Len(s.quiz_questions))
    /\ [][issued \subseteq issued']_vars

\* one snapshot was submitted twice, with two different answers
C20_Witness ==
    /\ IsPost
    /\ Started
    /\ session.current_question_index = 1
    /\ \E s \in issued :
          /\ QuizKeys \subseteq DOMAIN s
          /\ s.current_question_index = 1
          /\ s.quiz_questions = session.quiz_questions
          /\ s.answers[1].user_answer # session.answers[1].user_answer
          /\ s.score # session.score

====
